---- MODULE Spec2Model ----
(***************************************************************************)
(* Model of the replication coordinator of src/DFS.cpp: class Node, class  *)
(* DistributedFS and the command loop of main.  The file system under the  *)
(* node directories is part of the state (disk); the existence and the     *)
(* content of the upload source and the failure of a file system call are  *)
(* inputs of the commands.                                                 *)
(***************************************************************************)
EXTENDS Integers, Sequences, FiniteSets, TLC

\* ---------------------------------------------------------------- constants
totalNodes == 4            \* DistributedFS dfs(4)
REPLICATION == 3           \* const int REPLICATION = 3
WARN_BELOW == 2            \* if (activeCount < 2)

\* ------------------------------------------------------------------- bounds
MaxUploads == 2            \* uploads whose source exists, per run

Keys == {"a.txt", "b.txt"}
NodeIds == 1..totalNodes
ArgIds == 0..(totalNodes + 1)      \* ids typed at the prompt; 0 and 5 are invalid

VARIABLES
    active,      \* Node::active, by node id
    metadata,    \* DistributedFS::metadata : filename -> vector of node ids
    disk,        \* disk[n][k] : content of node_<n>/<k>, 0 when the file is absent
    nUploads,    \* number of uploads whose source existed (numbers the contents)
    cmd,         \* the command last run, with its inputs
    result,      \* the message the command printed
    calls,       \* node ids the command issued fs::copy / fs::remove on, in order
    got,         \* content written to downloaded_<k> by the command, 0 if none
    warnings,    \* <<file, activeCount>> of every WARNING line the command printed
    trail        \* the commands read so far while they follow a scenario, else Off

vars == <<active, metadata, disk, nUploads, cmd, result, calls, got, warnings,
          trail>>

\* ------------------------------------------------------------------ helpers
Range(s) == {s[i] : i \in 1..Len(s)}

NoCmd == [op |-> "none", key |-> "", id |-> 0, src |-> FALSE, fault |-> 0]

Cmd(op, key, id, src, fault) ==
    [op |-> op, key |-> key, id |-> id, src |-> src, fault |-> fault]

\* metadata.count(filename)
Has(md, key) == key \in DOMAIN md

Entry(md, key) == IF Has(md, key) THEN md[key] ELSE <<>>

\* mutant of Put: map::insert, which keeps an entry that is already there
PutKeep(md, key, used) ==
    IF key \in DOMAIN md THEN md
    ELSE [k \in (DOMAIN md) \cup {key} |-> IF k = key THEN used ELSE md[k]]

\* metadata[filename] = usedNodes
Put(md, key, used) ==
    [k \in (DOMAIN md) \cup {key} |-> IF k = key THEN used ELSE md[k]]

\* mutant of Erase: metadata.clear()
EraseAll(md, key) == [k \in {} |-> <<>>]

\* mutant of Erase: the entry is left in the directory
EraseNoop(md, key) == md

\* metadata.erase(filename)
Erase(md, key) == [k \in (DOMAIN md) \ {key} |-> md[k]]

\* mutant of NodeFail: the flag is flipped instead of cleared
NodeFailToggle(act, id) == [act EXCEPT ![id] = ~act[id]]

\* mutant of NodeRecover: the flag is left as it is
NodeRecoverNoop(act, id) == act

\* Node::fail / Node::recover on nodes[id - 1]
NodeFail(act, id) == [act EXCEPT ![id] = FALSE]
NodeRecover(act, id) == [act EXCEPT ![id] = TRUE]

\* mutant of InvalidId: the test id < 1 is missing
InvalidIdUpperOnly(id) == id > totalNodes

\* id < 1 || id > (int)nodes.size()
InvalidId(id) == id < 1 \/ id > totalNodes

\* ------------------------------------------------------------- health audit
RECURSIVE CountActive(_, _, _)
\* the inner loop of checkReplicaHealth over nodeList, from position i
CountActive(nodeList, act, i) ==
    IF i > Len(nodeList) THEN 0
    ELSE (IF act[nodeList[i]] THEN 1 ELSE 0) + CountActive(nodeList, act, i + 1)

ActiveCount(nodeList, act) == CountActive(nodeList, act, 1)

\* mutant of LowReplica: activeCount <= 2
LowReplicaOffByOne(activeCount) == activeCount <= WARN_BELOW

\* if (activeCount < 2)
LowReplica(activeCount) == activeCount < WARN_BELOW

\* checkReplicaHealth: the WARNING lines printed for the directory md
checkReplicaHealth(md, act) ==
    {<<file, ActiveCount(md[file], act)>> :
        file \in {f \in DOMAIN md : LowReplica(ActiveCount(md[f], act))}}

\* -------------------------------------------------------------- upload scan
\* Result of the try block of upload: the ids recorded, the counter, the disk,
\* the nodes fs::copy was called on and whether one of the calls threw.
ScanResult(used, replicated, d, cs, threw) ==
    [usedNodes |-> used, replicated |-> replicated, disk |-> d, calls |-> cs,
     threw |-> threw]

\* mutant of ScanDone: the scan stops one replica late
ScanDoneLate(replicated) == replicated = REPLICATION + 1

\* if (replicated == REPLICATION) break;
ScanDone(replicated) == replicated = REPLICATION

\* mutant of TooFew: the check after the scan is missing
TooFewNever(replicated) == FALSE

\* if (replicated < REPLICATION) : the upload is rejected
TooFew(replicated) == replicated < REPLICATION

\* mutant of Candidate: the scan does not test node.active
CandidateAny(act, i) == TRUE

\* if (node.active) : the node is a placement candidate
Candidate(act, i) == act[i]

RECURSIVE UploadScanPrepend(_, _, _, _, _, _, _, _, _)
\* mutant of UploadScan: the id is inserted at the front of usedNodes
UploadScanPrepend(i, used, replicated, d, cs, act, key, v, fault) ==
    IF i > totalNodes THEN ScanResult(used, replicated, d, cs, FALSE)
    ELSE IF Candidate(act, i)
         THEN IF fault = i
              THEN ScanResult(used, replicated, d, Append(cs, i), TRUE)
              ELSE LET d2 == [d EXCEPT ![i][key] = v]
                       u2 == <<i>> \o used
                       r2 == replicated + 1
                       c2 == Append(cs, i)
                   IN IF ScanDone(r2)
                      THEN ScanResult(u2, r2, d2, c2, FALSE)
                      ELSE UploadScanPrepend(i + 1, u2, r2, d2, c2, act, key, v, fault)
         ELSE IF ScanDone(replicated)
              THEN ScanResult(used, replicated, d, cs, FALSE)
              ELSE UploadScanPrepend(i + 1, used, replicated, d, cs, act, key, v, fault)

RECURSIVE UploadScan(_, _, _, _, _, _, _, _, _)
\* for (auto &node : nodes), from node i; fault is the node whose fs::copy throws
\* (0: none).  A copy that throws leaves what the node directory held.
UploadScan(i, used, replicated, d, cs, act, key, v, fault) ==
    IF i > totalNodes THEN ScanResult(used, replicated, d, cs, FALSE)
    ELSE IF Candidate(act, i)
         THEN IF fault = i
              THEN ScanResult(used, replicated, d, Append(cs, i), TRUE)
              ELSE LET d2 == [d EXCEPT ![i][key] = v]
                       u2 == Append(used, i)
                       r2 == replicated + 1
                       c2 == Append(cs, i)
                   IN IF ScanDone(r2)
                      THEN ScanResult(u2, r2, d2, c2, FALSE)
                      ELSE UploadScan(i + 1, u2, r2, d2, c2, act, key, v, fault)
         ELSE IF ScanDone(replicated)
              THEN ScanResult(used, replicated, d, cs, FALSE)
              ELSE UploadScan(i + 1, used, replicated, d, cs, act, key, v, fault)

\* ------------------------------------------------------------ download scan
FetchResult(cs, node, threw) == [calls |-> cs, node |-> node, threw |-> threw]

\* mutant of DownloadScan: the active replica with the lowest id is read, not
\* the one recorded first
DownloadScanLowestId(nodeList, i, act, d, key, fault) ==
    LET live == {nodeList[j] : j \in {x \in i..Len(nodeList) : act[nodeList[x]]}}
    IN IF live = {} THEN FetchResult(<<>>, 0, FALSE)
       ELSE LET nodeID == CHOOSE n \in live : \A m \in live : n <= m IN
            IF fault = nodeID \/ d[nodeID][key] = 0
            THEN FetchResult(<<nodeID>>, 0, TRUE)
            ELSE FetchResult(<<nodeID>>, nodeID, FALSE)

RECURSIVE DownloadScan(_, _, _, _, _, _)
\* for (int nodeID : metadata[filename]), from position i of the vector.
\* fs::copy throws when the file is not in the node directory or on a fault.
DownloadScan(nodeList, i, act, d, key, fault) ==
    IF i > Len(nodeList) THEN FetchResult(<<>>, 0, FALSE)
    ELSE LET nodeID == nodeList[i] IN
         IF act[nodeID]
         THEN IF fault = nodeID \/ d[nodeID][key] = 0
              THEN FetchResult(<<nodeID>>, 0, TRUE)
              ELSE FetchResult(<<nodeID>>, nodeID, FALSE)
         ELSE DownloadScan(nodeList, i + 1, act, d, key, fault)

\* -------------------------------------------------------------- delete scan
RemoveResult(d, cs, threw) == [disk |-> d, calls |-> cs, threw |-> threw]

RECURSIVE DeleteScanLiveOnly(_, _, _, _, _, _)
\* mutant of DeleteScan: fs::remove is called on active nodes only
DeleteScanLiveOnly(nodeList, i, d, cs, key, fault) ==
    IF i > Len(nodeList) THEN RemoveResult(d, cs, FALSE)
    ELSE LET nodeID == nodeList[i] IN
         IF ~active[nodeID]
         THEN DeleteScanLiveOnly(nodeList, i + 1, d, cs, key, fault)
         ELSE IF fault = nodeID
         THEN RemoveResult(d, Append(cs, nodeID), TRUE)
         ELSE DeleteScanLiveOnly(nodeList, i + 1, [d EXCEPT ![nodeID][key] = 0],
                                 Append(cs, nodeID), key, fault)

RECURSIVE DeleteScan(_, _, _, _, _, _)
\* for (int nodeID : metadata[filename]) fs::remove(...), from position i.
\* fs::remove of a file that is not there returns false and does not throw.
DeleteScan(nodeList, i, d, cs, key, fault) ==
    IF i > Len(nodeList) THEN RemoveResult(d, cs, FALSE)
    ELSE LET nodeID == nodeList[i] IN
         IF fault = nodeID
         THEN RemoveResult(d, Append(cs, nodeID), TRUE)
         ELSE DeleteScan(nodeList, i + 1, [d EXCEPT ![nodeID][key] = 0],
                         Append(cs, nodeID), key, fault)

\* ------------------------------------------------------------ the scenarios
\* upload a.txt; fail 1; fail 2; download a.txt; recover 1 (no fault, source there)
Script ==
    << Cmd("upload", "a.txt", 0, TRUE, 0),
       Cmd("fail", "", 1, FALSE, 0),
       Cmd("fail", "", 2, FALSE, 0),
       Cmd("download", "a.txt", 0, FALSE, 0),
       Cmd("recover", "", 1, FALSE, 0) >>

\* command sequences typed at the prompt of a fresh process that the runs are
\* followed along
Scenarios ==
    { Script,
      << Cmd("fail", "", 1, FALSE, 0), Cmd("fail", "", 1, FALSE, 0) >>,
      << Cmd("recover", "", 1, FALSE, 0), Cmd("recover", "", 1, FALSE, 0) >>,
      << Cmd("upload", "a.txt", 0, TRUE, 0), Cmd("fail", "", 1, FALSE, 0),
         Cmd("upload", "a.txt", 0, TRUE, 0) >>,
      << Cmd("upload", "a.txt", 0, TRUE, 0), Cmd("fail", "", 1, FALSE, 0),
         Cmd("fail", "", 2, FALSE, 0), Cmd("upload", "a.txt", 0, TRUE, 0) >> }

Off == << NoCmd >>

IsPrefix(s, t) == Len(s) <= Len(t) /\ \A i \in 1..Len(s) : s[i] = t[i]

\* the trail after command c is read
Follow(tr, c) ==
    IF tr # Off /\ \E sc \in Scenarios : IsPrefix(Append(tr, c), sc)
    THEN Append(tr, c)
    ELSE Off

\* ---------------------------------------------------------------- the state
Init ==
    /\ active = [n \in NodeIds |-> TRUE]
    /\ metadata = [k \in {} |-> <<>>]
    /\ disk = [n \in NodeIds |-> [k \in Keys |-> 0]]
    /\ nUploads = 0
    /\ cmd = NoCmd
    /\ result = "None"
    /\ calls = <<>>
    /\ got = 0
    /\ warnings = {}
    /\ trail = <<>>

\* what every command records about itself
Ran(c, res, cs, g, w) ==
    /\ cmd' = c
    /\ result' = res
    /\ calls' = cs
    /\ got' = g
    /\ warnings' = w
    /\ trail' = Follow(trail, c)

\* upload(filename), source missing
UploadNoSource(key) ==
    /\ Ran(Cmd("upload", key, 0, FALSE, 0), "SourceNotFound", <<>>, 0, {})
    /\ UNCHANGED <<active, metadata, disk, nUploads>>

\* mutant of Upload: the catch block removes the copies the scan has written
UploadRollback(key, fault) ==
    /\ nUploads < MaxUploads
    /\ LET v == nUploads + 1
           r == UploadScan(1, <<>>, 0, disk, <<>>, active, key, v, fault)
       IN /\ (fault # 0) => r.threw
          /\ nUploads' = v
          /\ IF r.threw
             THEN /\ metadata' = metadata
                  /\ disk' = [n \in NodeIds |->
                                IF n \in Range(r.usedNodes)
                                THEN [disk[n] EXCEPT ![key] = 0] ELSE disk[n]]
                  /\ Ran(Cmd("upload", key, 0, TRUE, fault), "ReplicationIOError",
                         r.calls, 0, {})
             ELSE IF TooFew(r.replicated)
             THEN /\ metadata' = metadata
                  /\ disk' = r.disk
                  /\ Ran(Cmd("upload", key, 0, TRUE, fault), "InsufficientReplicas",
                         r.calls, 0, {})
             ELSE /\ metadata' = Put(metadata, key, r.usedNodes)
                  /\ disk' = r.disk
                  /\ Ran(Cmd("upload", key, 0, TRUE, fault), "Ok", r.calls, 0, {})
    /\ UNCHANGED active

\* upload(filename), source present with content number nUploads + 1
Upload(key, fault) ==
    /\ nUploads < MaxUploads
    /\ LET v == nUploads + 1
           r == UploadScan(1, <<>>, 0, disk, <<>>, active, key, v, fault)
       IN /\ (fault # 0) => r.threw
          /\ nUploads' = v
          /\ disk' = r.disk
          /\ IF r.threw
             THEN /\ metadata' = metadata
                  /\ Ran(Cmd("upload", key, 0, TRUE, fault), "ReplicationIOError",
                         r.calls, 0, {})
             ELSE IF TooFew(r.replicated)
             THEN /\ metadata' = metadata
                  /\ Ran(Cmd("upload", key, 0, TRUE, fault), "InsufficientReplicas",
                         r.calls, 0, {})
             ELSE /\ metadata' = Put(metadata, key, r.usedNodes)
                  /\ Ran(Cmd("upload", key, 0, TRUE, fault), "Ok", r.calls, 0, {})
    /\ UNCHANGED active

\* mutant of Download: after a fetch that throws, the next recorded replica
\* is tried
DownloadTryNext(key, fault) ==
    /\ IF ~Has(metadata, key)
       THEN /\ fault = 0
            /\ Ran(Cmd("download", key, 0, FALSE, 0), "NotFound", <<>>, 0, {})
       ELSE LET r == DownloadScan(metadata[key], 1, active, disk, key, fault)
                rest == [active EXCEPT ![r.calls[1]] = FALSE]
                r2 == IF r.threw
                      THEN DownloadScan(metadata[key], 1, rest, disk, key, 0)
                      ELSE r
                cs == IF r.threw THEN r.calls \o r2.calls ELSE r.calls
            IN /\ (fault # 0) => (r.threw /\ r.calls = <<fault>> /\ disk[fault][key] # 0)
               /\ IF r2.threw
                  THEN Ran(Cmd("download", key, 0, FALSE, fault),
                           "ReplicationIOError", cs, 0, {})
                  ELSE IF r2.node = 0
                  THEN Ran(Cmd("download", key, 0, FALSE, fault),
                           "AllReplicasUnavailable", cs, 0, {})
                  ELSE Ran(Cmd("download", key, 0, FALSE, fault), "Ok", cs,
                           disk[r2.node][key], {})
    /\ UNCHANGED <<active, metadata, disk, nUploads>>

\* download(filename)
Download(key, fault) ==
    /\ IF ~Has(metadata, key)
       THEN /\ fault = 0
            /\ Ran(Cmd("download", key, 0, FALSE, 0), "NotFound", <<>>, 0, {})
       ELSE LET r == DownloadScan(metadata[key], 1, active, disk, key, fault)
            IN /\ (fault # 0) => (r.threw /\ r.calls = <<fault>> /\ disk[fault][key] # 0)
               /\ IF r.threw
                  THEN Ran(Cmd("download", key, 0, FALSE, fault),
                           "ReplicationIOError", r.calls, 0, {})
                  ELSE IF r.node = 0
                  THEN Ran(Cmd("download", key, 0, FALSE, fault),
                           "AllReplicasUnavailable", r.calls, 0, {})
                  ELSE Ran(Cmd("download", key, 0, FALSE, fault), "Ok", r.calls,
                           disk[r.node][key], {})
    /\ UNCHANGED <<active, metadata, disk, nUploads>>

\* deleteFile(filename)
DeleteFile(key, fault) ==
    /\ IF ~Has(metadata, key)
       THEN /\ fault = 0
            /\ Ran(Cmd("delete", key, 0, FALSE, 0), "NotFound", <<>>, 0, {})
            /\ UNCHANGED <<metadata, disk>>
       ELSE LET r == DeleteScan(metadata[key], 1, disk, <<>>, key, fault)
            IN /\ (fault # 0) => r.threw
               /\ disk' = r.disk
               /\ IF r.threw
                  THEN /\ metadata' = metadata
                       /\ Ran(Cmd("delete", key, 0, FALSE, fault),
                              "ReplicationIOError", r.calls, 0, {})
                  ELSE /\ metadata' = Erase(metadata, key)
                       /\ Ran(Cmd("delete", key, 0, FALSE, fault), "Ok", r.calls,
                              0, {})
    /\ UNCHANGED <<active, nUploads>>

\* failNode(id)
FailNode(id) ==
    /\ IF InvalidId(id)
       THEN /\ active' = active
            /\ Ran(Cmd("fail", "", id, FALSE, 0), "NodeNotFound", <<>>, 0, {})
       ELSE /\ active' = NodeFail(active, id)
            /\ Ran(Cmd("fail", "", id, FALSE, 0), "Ok", <<>>, 0,
                   checkReplicaHealth(metadata, active'))
    /\ UNCHANGED <<metadata, disk, nUploads>>

\* recoverNode(id)
RecoverNode(id) ==
    /\ IF InvalidId(id)
       THEN /\ active' = active
            /\ Ran(Cmd("recover", "", id, FALSE, 0), "NodeNotFound", <<>>, 0, {})
       ELSE /\ active' = NodeRecover(active, id)
            /\ Ran(Cmd("recover", "", id, FALSE, 0), "Ok", <<>>, 0,
                   checkReplicaHealth(metadata, active'))
    /\ UNCHANGED <<metadata, disk, nUploads>>

\* listFiles()
ListFiles ==
    /\ Ran(Cmd("list", "", 0, FALSE, 0),
           IF DOMAIN metadata = {} THEN "Empty" ELSE "Ok", <<>>, 0, {})
    /\ UNCHANGED <<active, metadata, disk, nUploads>>

\* showNodes()
ShowNodes ==
    /\ Ran(Cmd("nodes", "", 0, FALSE, 0), "Ok", <<>>, 0, {})
    /\ UNCHANGED <<active, metadata, disk, nUploads>>

\* one command of the loop in main
Next ==
    \/ \E key \in Keys : UploadNoSource(key)
    \/ \E key \in Keys, fault \in 0..totalNodes : Upload(key, fault)
    \/ \E key \in Keys, fault \in 0..totalNodes : Download(key, fault)
    \/ \E key \in Keys, fault \in 0..totalNodes : DeleteFile(key, fault)
    \/ \E id \in ArgIds : FailNode(id)
    \/ \E id \in ArgIds : RecoverNode(id)
    \/ ListFiles
    \/ ShowNodes

Spec == Init /\ [][Next]_vars

\* the command loop while no fs::copy and no fs::remove is made to throw
NextNoFault ==
    \/ \E key \in Keys : UploadNoSource(key)
    \/ \E key \in Keys : Upload(key, 0)
    \/ \E key \in Keys : Download(key, 0)
    \/ \E key \in Keys : DeleteFile(key, 0)
    \/ \E id \in ArgIds : FailNode(id)
    \/ \E id \in ArgIds : RecoverNode(id)
    \/ ListFiles
    \/ ShowNodes

SpecNoFault == Init /\ [][NextNoFault]_vars

TypeOK ==
    /\ active \in [NodeIds -> BOOLEAN]
    /\ DOMAIN metadata \subseteq Keys
    /\ disk \in [NodeIds -> [Keys -> 0..(MaxUploads + 1)]]
    /\ nUploads \in 0..(MaxUploads + 1)
    /\ trail = Off \/ \E sc \in Scenarios : IsPrefix(trail, sc)

\* =================================================================== claims
\* the ids of the nodes that are active
ActiveIds == {n \in NodeIds : active[n]}

\* s lists, in ascending order, the k lowest ids of the set S
IsLowest(s, k, S) ==
    /\ Len(s) = k
    /\ Range(s) \subseteq S
    /\ \A i \in 1..(Len(s) - 1) : s[i] < s[i + 1]
    /\ \A n \in S \ Range(s) : \A m \in Range(s) : m < n

\* the number of positions of nodeList whose node is active
LiveCount(nodeList) == Cardinality({i \in 1..Len(nodeList) : active[nodeList[i]]})

\* C1: an upload whose source exists, with no fs::copy failure and at least
\* REPLICATION active nodes, succeeds and records for the key exactly the
\* REPLICATION lowest active ids, distinct and in ascending order.
C1_UploadCommitsLowestActive ==
    (cmd.op = "upload" /\ cmd.src /\ cmd.fault = 0
        /\ Cardinality(ActiveIds) >= REPLICATION)
    => /\ result = "Ok"
       /\ Has(metadata, cmd.key)
       /\ IsLowest(metadata[cmd.key], REPLICATION, ActiveIds)
       /\ Cardinality(Range(metadata[cmd.key])) = REPLICATION

\* C1 witness: a successful upload made while node 1 was failed (set 2,3,4)
C1_Witness ==
    /\ cmd.op = "upload" /\ cmd.src /\ cmd.fault = 0 /\ result = "Ok"
    /\ ~active[1]
    /\ metadata[cmd.key] = <<2, 3, 4>>

\* C2 as stated: an upload issued while fewer than REPLICATION nodes are
\* active leaves the directory as it was and reports InsufficientReplicas.
C2_RejectedUploadAsStated ==
    [][(cmd'.op = "upload" /\ Cardinality(ActiveIds) < REPLICATION)
        => (metadata' = metadata /\ result' = "InsufficientReplicas")]_vars

\* C2 amended: an upload issued while fewer than REPLICATION nodes are active
\* leaves the directory as it was; it reports InsufficientReplicas when the
\* source exists and no fs::copy fails, SourceNotFound when the source is
\* missing and ReplicationIOError when an fs::copy fails.
C2_RejectedUploadKeepsDirectory ==
    [][(cmd'.op = "upload" /\ Cardinality(ActiveIds) < REPLICATION)
        => /\ metadata' = metadata
           /\ (cmd'.src /\ cmd'.fault = 0) => result' = "InsufficientReplicas"
           /\ ~cmd'.src => result' = "SourceNotFound"
           /\ cmd'.fault # 0 => result' = "ReplicationIOError"]_vars

\* C2 witness: upload a.txt; fail 1; fail 2; upload a.txt: the second upload
\* is rejected and the entry of the first one is kept
C2_Witness ==
    /\ Len(trail) = 4 /\ trail[3].op = "fail" /\ trail[4].op = "upload"
    /\ result = "InsufficientReplicas"
    /\ Entry(metadata, "a.txt") = <<1, 2, 3>>
    /\ calls = <<3, 4>>

\* C3: a delete of a key of the directory either removes the entry and the
\* copy on every node of its replica set, or leaves the entry and every copy
\* of the key as they were.
C3_DeleteAllOrNothing ==
    [][(cmd'.op = "delete" /\ Has(metadata, cmd'.key))
        => LET key == cmd'.key IN
           \/ /\ ~Has(metadata', key)
              /\ \A n \in Range(metadata[key]) : disk'[n][key] = 0
           \/ /\ Has(metadata', key) /\ metadata'[key] = metadata[key]
              /\ \A n \in NodeIds : disk'[n][key] = disk[n][key]]_vars

\* ------------------------------------------------- the download loop alone
\* vectors of REPLICATION distinct node ids, in every order
IdVectors ==
    {s \in [1..REPLICATION -> NodeIds] : \A i, j \in 1..REPLICATION : i # j => s[i] # s[j]}

\* The loop of download reads the stored vector and the liveness flags only.
\* It is run here on a directory that holds a.txt under any vector of distinct
\* ids, a copy on each of them, and any liveness.
InitScan ==
    /\ active \in [NodeIds -> BOOLEAN]
    /\ \E vec \in IdVectors :
          /\ metadata = [k \in {"a.txt"} |-> vec]
          /\ disk = [n \in NodeIds |->
                       [k \in Keys |-> IF k = "a.txt" /\ n \in Range(vec) THEN 1 ELSE 0]]
    /\ nUploads = 1
    /\ cmd = NoCmd
    /\ result = "None"
    /\ calls = <<>>
    /\ got = 0
    /\ warnings = {}
    /\ trail = Off

NextScan ==
    \/ \E key \in Keys, fault \in 0..totalNodes : Download(key, fault)
    \/ \E id \in ArgIds : FailNode(id)
    \/ \E id \in ArgIds : RecoverNode(id)

SpecScan == InitScan /\ [][NextScan]_vars

\* positions of nodeList whose node is active
LivePositions(nodeList) == {i \in 1..Len(nodeList) : active[nodeList[i]]}

Min(S) == CHOOSE m \in S : \A x \in S : m <= x

\* C4: a download of a stored key issues its one fs::copy on the node at the
\* first position of the recorded vector whose node is active, whatever the
\* order of the vector; it reads no inactive node and no active node recorded
\* after another active one, and with no active node it reads nothing.
C4_DownloadReadsFirstLiveRecorded ==
    (cmd.op = "download" /\ Has(metadata, cmd.key))
    => LET nodeList == metadata[cmd.key]
           live == LivePositions(nodeList)
       IN IF live = {}
          THEN calls = <<>> /\ result = "AllReplicasUnavailable"
          ELSE /\ calls = << nodeList[Min(live)] >>
               /\ result \in {"Ok", "ReplicationIOError"}
               /\ result = "Ok" => got = disk[nodeList[Min(live)]][cmd.key]

\* C4 witness: vector [2,1,3], node 2 failed, nodes 1 and 3 active: read from 1
C4_Witness ==
    /\ cmd.op = "download" /\ cmd.key = "a.txt" /\ result = "Ok"
    /\ Entry(metadata, "a.txt") = <<2, 1, 3>>
    /\ ~active[2] /\ active[1] /\ active[3]
    /\ calls = <<1>>

\* the WARNING lines an audit of the current state has to print
ExpectedWarnings ==
    {<<k, LiveCount(metadata[k])>> :
        k \in {f \in DOMAIN metadata : LiveCount(metadata[f]) < 2}}

\* C5: after an accepted failNode or recoverNode, a key has a warning exactly
\* when fewer than 2 of its recorded ids are active in the new state, and the
\* warning carries that count.
C5_AuditWarnsBelowTwo ==
    (cmd.op \in {"fail", "recover"} /\ result = "Ok")
    => /\ warnings = ExpectedWarnings
       /\ \A k \in DOMAIN metadata :
             /\ LiveCount(metadata[k]) = 1 => <<k, 1>> \in warnings
             /\ LiveCount(metadata[k]) = 0 => <<k, 0>> \in warnings
             /\ LiveCount(metadata[k]) >= 2 => \A c \in 0..REPLICATION : <<k, c>> \notin warnings

\* C5 witness: after a failNode one file warns with 1 active replica while
\* another file, with a single failed member, does not warn
C5_Witness ==
    /\ cmd.op = "fail" /\ result = "Ok"
    /\ \E k1, k2 \in DOMAIN metadata :
          /\ <<k1, 1>> \in warnings
          /\ LiveCount(metadata[k2]) = 2
          /\ \A c \in 0..REPLICATION : <<k2, c>> \notin warnings

\* the step leaves liveness, directory and node directories as they were
SameState ==
    /\ active' = active
    /\ metadata' = metadata
    /\ disk' = disk

\* C6: a failNode (recoverNode) that repeats the accepted command before it
\* reports no error, leaves the node inactive (active) and the state as it was,
\* and prints the warnings again; recoverNode of an active node succeeds and
\* changes nothing of the state.
C6_FailRecoverIdempotent ==
    [][/\ (cmd.op = "fail" /\ result = "Ok" /\ cmd' = cmd)
            => (result' = "Ok" /\ ~active[cmd.id] /\ ~active'[cmd.id] /\ SameState
                /\ warnings' = warnings)
       /\ (cmd.op = "recover" /\ result = "Ok" /\ cmd' = cmd)
            => (result' = "Ok" /\ active[cmd.id] /\ active'[cmd.id] /\ SameState
                /\ warnings' = warnings)
       /\ (cmd'.op = "recover" /\ cmd'.id \in NodeIds /\ active[cmd'.id])
            => (result' = "Ok" /\ SameState)]_vars

\* C6 witness: fail 1; fail 1 typed at a fresh prompt
C6_Witness ==
    /\ Len(trail) = 2 /\ trail[1] = trail[2] /\ trail[2].op = "fail"
    /\ cmd = trail[2] /\ result = "Ok"
    /\ ~active[1]

\* the first k commands of Script have been run, and nothing else
Ran_(k) == trail = SubSeq(Script, 1, k)

\* C7: upload a.txt; fail 1; fail 2; download a.txt; recover 1 on a fresh
\* 4-node cluster: replicas 1,2,3 committed; no warning (2 active); warning
\* with activeCount 1; download from node 3; no warning (2 active).
C7_Scenario ==
    /\ Ran_(1) => (result = "Ok" /\ DOMAIN metadata = {"a.txt"}
                    /\ metadata["a.txt"] = <<1, 2, 3>>)
    /\ Ran_(2) => (result = "Ok" /\ warnings = {} /\ LiveCount(metadata["a.txt"]) = 2)
    /\ Ran_(3) => (result = "Ok" /\ warnings = {<<"a.txt", 1>>})
    /\ Ran_(4) => (result = "Ok" /\ calls = <<3>> /\ got = 1)
    /\ Ran_(5) => (result = "Ok" /\ warnings = {} /\ LiveCount(metadata["a.txt"]) = 2
                    /\ metadata["a.txt"] = <<1, 2, 3>>)

\* C7 witness: the whole scenario has been run
C7_Witness == trail = Script /\ cmd = Script[5] /\ active = <<TRUE, FALSE, TRUE, TRUE>>

\* C8: the directory changes only by a successful upload, which sets the entry
\* of its key, or a successful delete, which removes the entry of its key;
\* every other command leaves it as it was.  Liveness changes only by an
\* accepted failNode or recoverNode and only for the node named.
C8_Frame ==
    [][/\ metadata' # metadata
            => \/ /\ cmd'.op = "upload" /\ result' = "Ok"
                  /\ DOMAIN metadata' = DOMAIN metadata \cup {cmd'.key}
                  /\ \A k \in DOMAIN metadata \ {cmd'.key} : metadata'[k] = metadata[k]
               \/ /\ cmd'.op = "delete" /\ result' = "Ok"
                  /\ DOMAIN metadata' = DOMAIN metadata \ {cmd'.key}
                  /\ \A k \in DOMAIN metadata' : metadata'[k] = metadata[k]
       /\ cmd'.op \in {"fail", "recover", "download", "list", "nodes"}
            => metadata' = metadata
       /\ active' # active
            => /\ cmd'.op \in {"fail", "recover"} /\ result' = "Ok"
               /\ \A n \in NodeIds \ {cmd'.id} : active'[n] = active[n]]_vars

\* C8 witness: a failNode after which a stored file has all three recorded
\* nodes failed and still records them
C8_Witness ==
    /\ cmd.op = "fail" /\ result = "Ok"
    /\ \E k \in DOMAIN metadata :
          /\ metadata[k] = <<1, 2, 3>>
          /\ LiveCount(metadata[k]) = 0

\* C9: every directory entry is a vector of exactly REPLICATION pairwise
\* distinct ids of 1..totalNodes.
C9_EntriesWellFormed ==
    \A k \in DOMAIN metadata :
        /\ Len(metadata[k]) = REPLICATION
        /\ Cardinality(Range(metadata[k])) = REPLICATION
        /\ Range(metadata[k]) \subseteq 1..totalNodes

\* C9 witness: two files stored under different replica sets, with fewer than
\* REPLICATION nodes active now
C9_Witness ==
    /\ DOMAIN metadata = Keys
    /\ metadata["a.txt"] # metadata["b.txt"]
    /\ Cardinality(ActiveIds) < REPLICATION

\* C10: a successful upload of a key already stored replaces its entry by the
\* newly chosen set, keeps one entry per key, and leaves the copies on the
\* nodes of the prior set that are not in the new one as they were.
C10_ReuploadReplaces ==
    [][(cmd'.op = "upload" /\ result' = "Ok" /\ Has(metadata, cmd'.key))
        => LET key == cmd'.key IN
           /\ DOMAIN metadata' = DOMAIN metadata
           /\ IsLowest(metadata'[key], REPLICATION, ActiveIds)
           /\ \A k \in DOMAIN metadata \ {key} : metadata'[k] = metadata[k]
           /\ \A n \in Range(metadata[key]) \ Range(metadata'[key]) :
                 disk'[n][key] = disk[n][key]]_vars

\* C10 witness: upload a.txt; fail 1; upload a.txt: the entry is 2,3,4 and
\* node 1 still holds the first content
C10_Witness ==
    /\ Len(trail) = 3 /\ trail[3].op = "upload" /\ result = "Ok"
    /\ metadata["a.txt"] = <<2, 3, 4>>
    /\ disk[1]["a.txt"] = 1
    /\ disk[2]["a.txt"] = 2

\* C11: a download of a stored key on which no fault is injected succeeds
\* exactly when a recorded node is active, and reports AllReplicasUnavailable
\* exactly when every recorded node is inactive.
C11_DownloadSucceedsIffLive ==
    (cmd.op = "download" /\ Has(metadata, cmd.key) /\ cmd.fault = 0)
    => /\ result = "Ok" <=> LiveCount(metadata[cmd.key]) >= 1
       /\ result = "AllReplicasUnavailable" <=> LiveCount(metadata[cmd.key]) = 0

\* the nodes up to and including node n that are active, in ascending order
RECURSIVE LiveUpTo(_)
LiveUpTo(n) ==
    IF n = 0 THEN <<>>
    ELSE IF active[n] THEN Append(LiveUpTo(n - 1), n) ELSE LiveUpTo(n - 1)

\* C12: an upload in which an fs::copy throws reports ReplicationIOError; the
\* calls stop at the throwing node, the directory is as before, each node
\* written before the throwing one holds the new content and every other
\* file is as before.
C12_UploadAbortsOnStoreError ==
    [][(cmd'.op = "upload" /\ cmd'.fault # 0)
        => LET key == cmd'.key
               f == cmd'.fault
           IN /\ result' = "ReplicationIOError"
              /\ metadata' = metadata
              /\ calls' = LiveUpTo(f)
              /\ \A n \in NodeIds :
                    /\ (n \in Range(calls') /\ n # f) => disk'[n][key] = nUploads'
                    /\ (n \notin Range(calls') \/ n = f) => disk'[n][key] = disk[n][key]
                    /\ \A k \in Keys \ {key} : disk'[n][k] = disk[n][k]]_vars

\* C12 witness: the third copy of an upload of a new key throws: nodes 1 and 2
\* hold the content, node 4 was not tried, the key is not in the directory
C12_Witness ==
    /\ cmd.op = "upload" /\ cmd.fault = 3 /\ result = "ReplicationIOError"
    /\ calls = <<1, 2, 3>>
    /\ active[4]
    /\ ~Has(metadata, cmd.key)
    /\ disk[1][cmd.key] = nUploads /\ disk[2][cmd.key] = nUploads
    /\ disk[3][cmd.key] = 0 /\ disk[4][cmd.key] = 0

\* C13: a download whose fetch from the first active recorded node throws
\* reports ReplicationIOError, has called fs::copy on that node only, and
\* leaves directory, liveness and node directories as they were.
C13_DownloadAbortsOnFetchError ==
    [][(cmd'.op = "download" /\ cmd'.fault # 0)
        => /\ Has(metadata, cmd'.key)
           /\ LivePositions(metadata[cmd'.key]) # {}
           /\ cmd'.fault = metadata[cmd'.key][Min(LivePositions(metadata[cmd'.key]))]
           /\ result' = "ReplicationIOError"
           /\ calls' = << cmd'.fault >>
           /\ got' = 0
           /\ SameState]_vars

\* C13 witness: the fetch from node 1 throws while nodes 2 and 3 are active
\* and hold the file
C13_Witness ==
    /\ cmd.op = "download" /\ cmd.fault = 1 /\ result = "ReplicationIOError"
    /\ calls = <<1>>
    /\ Entry(metadata, cmd.key) = <<1, 2, 3>>
    /\ active[2] /\ active[3]
    /\ disk[2][cmd.key] # 0 /\ disk[3][cmd.key] # 0

\* the first positions of nodeList up to the one that holds node f
UpTo(nodeList, f) ==
    SubSeq(nodeList, 1, Min({i \in 1..Len(nodeList) : nodeList[i] = f}))

\* C14: a delete of a stored key calls fs::remove on the recorded nodes in
\* order, active or not; with no throw it reports success after a call on
\* every one of them and the entry is gone; with a throw it reports
\* ReplicationIOError, the calls stop there and the entry is as before.
C14_DeleteFansOutRegardlessOfLiveness ==
    [][(cmd'.op = "delete" /\ Has(metadata, cmd'.key))
        => LET key == cmd'.key IN
           IF cmd'.fault = 0
           THEN /\ result' = "Ok"
                /\ calls' = metadata[key]
                /\ ~Has(metadata', key)
                /\ \A n \in Range(metadata[key]) : disk'[n][key] = 0
           ELSE /\ result' = "ReplicationIOError"
                /\ cmd'.fault \in Range(metadata[key])
                /\ calls' = UpTo(metadata[key], cmd'.fault)
                /\ Has(metadata', key) /\ metadata'[key] = metadata[key]]_vars

\* C14 witness: a delete that succeeded with all recorded nodes failed
C14_Witness ==
    /\ cmd.op = "delete" /\ result = "Ok"
    /\ calls = <<1, 2, 3>>
    /\ ~active[1] /\ ~active[2] /\ ~active[3]
    /\ \A n \in NodeIds : disk[n][cmd.key] = 0

\* C15: upload with a missing source, download and delete of a key that is
\* not stored, and fail/recover of an id outside 1..totalNodes are rejected;
\* a rejected command leaves liveness, directory and node directories as they
\* were, calls no fs::copy or fs::remove and prints no warning.
C15_RejectedChangesNothing ==
    [][/\ (cmd'.op = "upload" /\ ~cmd'.src) => result' = "SourceNotFound"
       /\ (cmd'.op \in {"download", "delete"} /\ ~Has(metadata, cmd'.key))
            => result' = "NotFound"
       /\ (cmd'.op \in {"fail", "recover"} /\ cmd'.id \notin 1..totalNodes)
            => result' = "NodeNotFound"
       /\ result' \in {"SourceNotFound", "NotFound", "NodeNotFound"}
            => (SameState /\ calls' = <<>> /\ got' = 0 /\ warnings' = {})]_vars

\* C15 witness: fail 0 is rejected in a state whose audit would warn
C15_Witness ==
    /\ cmd.op = "fail" /\ cmd.id = 0 /\ result = "NodeNotFound"
    /\ ExpectedWarnings # {}
    /\ warnings = {}

\* the nodes whose copy of the file of the upload just run holds its content
Written == {n \in NodeIds : disk'[n][cmd'.key] = nUploads'}

\* the upload just run has changed no file but the copies it has written
OnlyWritten ==
    \A n \in NodeIds : \A k \in Keys :
        (k # cmd'.key \/ n \notin Written) => disk'[n][k] = disk[n][k]

\* C16 as stated: an upload writes to active nodes only, at most REPLICATION
\* of them; with at least REPLICATION active nodes it writes to exactly the
\* REPLICATION lowest active ones; with fewer it writes to every active node
\* and is rejected.
C16_UploadFootprintAsStated ==
    [][(cmd'.op = "upload")
        => IF Cardinality(ActiveIds) >= REPLICATION
           THEN \E s \in [1..REPLICATION -> NodeIds] :
                   /\ IsLowest(s, REPLICATION, ActiveIds)
                   /\ cmd'.src /\ Written = Range(s) /\ OnlyWritten
           ELSE /\ cmd'.src /\ Written = ActiveIds /\ OnlyWritten
                /\ result' = "InsufficientReplicas"]_vars

\* C16 amended: an upload writes to active nodes only, at most REPLICATION of
\* them, and changes no other file; when its source exists and no fs::copy
\* throws, it writes to exactly the REPLICATION lowest active nodes if there
\* are that many, and else to every active node before it is rejected.  With
\* a missing source it writes nothing; when an fs::copy throws it has written
\* to the active nodes below the throwing one.
C16_UploadFootprint ==
    [][(cmd'.op = "upload")
        => IF ~cmd'.src
           THEN disk' = disk
           ELSE /\ OnlyWritten
                /\ Written \subseteq ActiveIds
                /\ Cardinality(Written) <= REPLICATION
                /\ cmd'.fault # 0
                     => Written = {n \in ActiveIds : n < cmd'.fault}
                /\ (cmd'.fault = 0 /\ Cardinality(ActiveIds) >= REPLICATION)
                     => \E s \in [1..REPLICATION -> NodeIds] :
                           /\ IsLowest(s, REPLICATION, ActiveIds)
                           /\ Written = Range(s)
                /\ (cmd'.fault = 0 /\ Cardinality(ActiveIds) < REPLICATION)
                     => (Written = ActiveIds /\ result' = "InsufficientReplicas")]_vars

\* C16 witness: an upload with all four nodes active has written nodes 1, 2
\* and 3 and not node 4
C16_Witness ==
    /\ cmd.op = "upload" /\ cmd.src /\ cmd.fault = 0 /\ result = "Ok"
    /\ ActiveIds = NodeIds
    /\ \A n \in 1..3 : disk[n][cmd.key] = nUploads
    /\ disk[4][cmd.key] = 0

\* C17: while no file system call throws, every node recorded for a key in
\* the directory holds a copy of the key.
C17_RecordedNodesHoldCopy ==
    \A k \in DOMAIN metadata : \A n \in Range(metadata[k]) : disk[n][k] # 0

\* C17 witness: a re-upload of a stored key was rejected with one of its
\* recorded nodes failed, and the recorded nodes still hold their copies
C17_Witness ==
    /\ cmd.op = "upload" /\ result = "InsufficientReplicas"
    /\ Has(metadata, cmd.key)
    /\ \E n \in Range(metadata[cmd.key]) : ~active[n]
    /\ \A n \in Range(metadata[cmd.key]) : disk[n][cmd.key] # 0

\* C18: a successful delete leaves no copy of the key on any node, and a
\* node holds a copy of a key only if the directory records the node for it.
C18_NoOrphanedCopies ==
    /\ (cmd.op = "delete" /\ result = "Ok") => \A n \in NodeIds : disk[n][cmd.key] = 0
    /\ \A k \in Keys : \A n \in NodeIds :
          disk[n][k] # 0 => (Has(metadata, k) /\ n \in Range(metadata[k]))

\* C19: all nodes recorded for a key hold the same content of it.
C19_ReplicasAgree ==
    \A k \in DOMAIN metadata : \A n, m \in Range(metadata[k]) : disk[n][k] = disk[m][k]

\* C20: every vector of the directory is strictly ascending, and a download
\* that reads a node reads the lowest active node of the vector.
C20_EntriesAscending ==
    /\ \A k \in DOMAIN metadata :
          \A i \in 1..(Len(metadata[k]) - 1) : metadata[k][i] < metadata[k][i + 1]
    /\ (cmd.op = "download" /\ Has(metadata, cmd.key) /\ calls # <<>>)
          => calls = << Min(Range(metadata[cmd.key]) \cap ActiveIds) >>

\* C20 witness: a download from 2,3,4 with node 2 failed reads node 3
C20_Witness ==
    /\ cmd.op = "download" /\ result = "Ok"
    /\ metadata[cmd.key] = <<2, 3, 4>>
    /\ ~active[2] /\ active[3] /\ active[4]
    /\ calls = <<3>>
====
